---------------------------- MODULE Spec2Model ----------------------------
(***************************************************************************)
(* The HTTP admission pipeline of the aquachain RPC server (package rpc):  *)
(* allowIPHandler -> virtualHostHandler -> CORS handler -> Server, as      *)
(* composed by NewHTTPServer.                                              *)
(*                                                                         *)
(* Strings are modelled as sequences of lexemes: the delimiters the code   *)
(* and the library functions it calls look at (",", ":", " ", "[", "]",    *)
(* ";", "/", "%") are lexemes of their own, every other lexeme is a        *)
(* maximal run of characters without delimiters ("localhost",              *)
(* "203.0.113.7").                                                         *)
(* The empty string is the empty sequence.                                 *)
(***************************************************************************)
EXTENDS Integers, Sequences, FiniteSets, TLC

VARIABLES args, allowedIPs, reverseproxy, vhosts, corsOn, preflightStatus, conns

vars == <<args, allowedIPs, reverseproxy, vhosts, corsOn, preflightStatus, conns>>

--------------------------------------------------------------------------
(* Generic string helpers (package strings).                               *)

Min(a, b) == IF a < b THEN a ELSE b

Max(a, b) == IF a > b THEN a ELSE b

\* strings.Index / bytealg.IndexByteString: first position of lexeme t, 0 if none
IndexOf(s, t) ==
  IF \E i \in 1..Len(s) : s[i] = t
  THEN CHOOSE i \in 1..Len(s) : s[i] = t /\ \A j \in 1..(i-1) : s[j] # t
  ELSE 0

\* last position of lexeme t in s, 0 if none
LastIndexOf(s, t) ==
  IF \E i \in 1..Len(s) : s[i] = t
  THEN CHOOSE i \in 1..Len(s) : s[i] = t /\ \A j \in (i+1)..Len(s) : s[j] # t
  ELSE 0

RECURSIVE Split(_, _)
\* strings.Split(s, sep): the pieces of s between the separators; never empty
Split(s, sep) ==
  LET i == IndexOf(s, sep)
  IN  IF i = 0 THEN <<s>>
      ELSE <<SubSeq(s, 1, i-1)>> \o Split(SubSeq(s, i+1, Len(s)), sep)

RECURSIVE TrimLeft(_)
TrimLeft(s) == IF s # <<>> /\ Head(s) = " " THEN TrimLeft(Tail(s)) ELSE s

RECURSIVE TrimRight(_)
TrimRight(s) ==
  IF s # <<>> /\ s[Len(s)] = " " THEN TrimRight(SubSeq(s, 1, Len(s)-1)) ELSE s

\* strings.TrimSpace
TrimSpace(s) == TrimRight(TrimLeft(s))

\* lower-case form of one lexeme (the lexemes with upper-case letters the model uses)
LowerLexeme(t) ==
  CASE t = "LocalHost"        -> "localhost"
    [] t = "LOCALHOST"        -> "localhost"
    [] t = "Node.Example"     -> "node.example"
    [] t = "Application"      -> "application"
    [] t = "JSON"             -> "json"
    [] t = "FE80"             -> "fe80"
    [] OTHER                  -> t

\* strings.ToLower
ToLower(s) == [i \in 1..Len(s) |-> LowerLexeme(s[i])]

--------------------------------------------------------------------------
(* IP addresses (package net).  An address is [fam, w]: fam 4 with four    *)
(* 8-bit words, fam 6 with eight 16-bit words; NoIP is Go's nil net.IP.    *)

NoIP == [fam |-> 0, w |-> <<>>]

IP4(a, b, c, d) == [fam |-> 4, w |-> <<a, b, c, d>>]

IP6(g) == [fam |-> 6, w |-> g]

\* dotted-quad lexemes and their bytes; a lexeme outside this table is no IPv4 text
V4Lexemes ==
  { "127.0.0.1", "10.0.0.1", "10.0.0.5", "192.168.1.9", "203.0.113.7",
    "8.8.8.8", "198.51.100.4", "0.0.0.0", "169.254.1.1", "224.0.0.1",
    "9.9.9.9", "10.0.0.0", "8.0.0.0", "255.255.255.255" }

V4Bytes(t) ==
  CASE t = "127.0.0.1"       -> <<127, 0, 0, 1>>
    [] t = "10.0.0.1"        -> <<10, 0, 0, 1>>
    [] t = "10.0.0.5"        -> <<10, 0, 0, 5>>
    [] t = "10.0.0.0"        -> <<10, 0, 0, 0>>
    [] t = "192.168.1.9"     -> <<192, 168, 1, 9>>
    [] t = "203.0.113.7"     -> <<203, 0, 113, 7>>
    [] t = "8.8.8.8"         -> <<8, 8, 8, 8>>
    [] t = "8.0.0.0"         -> <<8, 0, 0, 0>>
    [] t = "9.9.9.9"         -> <<9, 9, 9, 9>>
    [] t = "198.51.100.4"    -> <<198, 51, 100, 4>>
    [] t = "0.0.0.0"         -> <<0, 0, 0, 0>>
    [] t = "169.254.1.1"     -> <<169, 254, 1, 1>>
    [] t = "224.0.0.1"       -> <<224, 0, 0, 1>>
    [] t = "255.255.255.255" -> <<255, 255, 255, 255>>

\* hexadecimal group lexemes of IPv6 text and their values
HexLexemes == { "0", "1", "fe80", "FE80", "2001", "db8", "ffff", "a00", "808", "2606", "fc00" }

HexValue(t) ==
  CASE t = "0"    -> 0
    [] t = "1"    -> 1
    [] t = "fe80" -> 65152
    [] t = "FE80" -> 65152
    [] t = "fc00" -> 64512
    [] t = "2001" -> 8193
    [] t = "2606" -> 9734
    [] t = "db8"  -> 3512
    [] t = "ffff" -> 65535
    [] t = "a00"  -> 2560
    [] t = "808"  -> 2056

\* decimal lexemes (prefix lengths) and their values
DecLexemes == { "0", "1", "7", "8", "10", "16", "24", "32", "64", "128" }

DecValue(t) ==
  CASE t = "0" -> 0 [] t = "1" -> 1 [] t = "7" -> 7 [] t = "8" -> 8
    [] t = "10" -> 10 [] t = "16" -> 16 [] t = "24" -> 24 [] t = "32" -> 32
    [] t = "64" -> 64 [] t = "128" -> 128

\* "g:g:...:g" -> TRUE iff hex groups separated by single colons (or empty)
IsGroupList(s) ==
  \/ s = <<>>
  \/ /\ Len(s) % 2 = 1
     /\ \A i \in 1..Len(s) :
          IF i % 2 = 1 THEN s[i] \in HexLexemes ELSE s[i] = ":"

GroupValues(s) == [k \in 1..((Len(s) + 1) \div 2) |-> HexValue(s[2*k - 1])]

Zeros(n) == [k \in 1..n |-> 0]

\* position of the "::" ellipsis, 0 if none
EllipsisAt(s) ==
  IF \E i \in 1..(Len(s)-1) : s[i] = ":" /\ s[i+1] = ":"
  THEN CHOOSE i \in 1..(Len(s)-1) :
         /\ s[i] = ":" /\ s[i+1] = ":"
         /\ \A j \in 1..(i-1) : ~(s[j] = ":" /\ s[j+1] = ":")
  ELSE 0

\* the eight groups of an IPv6 text, <<>> if s is no IPv6 text
ParseIPv6Groups(s) ==
  LET e == EllipsisAt(s)
  IN  IF e = 0
      THEN IF s # <<>> /\ IsGroupList(s) /\ Len(s) = 15 THEN GroupValues(s) ELSE <<>>
      ELSE LET l == SubSeq(s, 1, e-1)
               r == SubSeq(s, e+2, Len(s))
               nl == IF l = <<>> THEN 0 ELSE (Len(l) + 1) \div 2
               nr == IF r = <<>> THEN 0 ELSE (Len(r) + 1) \div 2
           IN  IF IsGroupList(l) /\ IsGroupList(r) /\ nl + nr <= 7
               THEN (IF l = <<>> THEN <<>> ELSE GroupValues(l))
                      \o Zeros(8 - nl - nr)
                      \o (IF r = <<>> THEN <<>> ELSE GroupValues(r))
               ELSE <<>>

\* net.IP.To4: an IPv4-mapped IPv6 address is the IPv4 address
To4(ip) ==
  IF ip.fam = 6 /\ SubSeq(ip.w, 1, 5) = Zeros(5) /\ ip.w[6] = 65535
  THEN IP4(ip.w[7] \div 256, ip.w[7] % 256, ip.w[8] \div 256, ip.w[8] % 256)
  ELSE ip

\* net.ParseIP: the address a text denotes, NoIP if it denotes none
ParseIP(s) ==
  IF Len(s) = 1 /\ s[1] \in V4Lexemes THEN IP4(V4Bytes(s[1])[1], V4Bytes(s[1])[2],
                                                V4Bytes(s[1])[3], V4Bytes(s[1])[4])
  ELSE IF ParseIPv6Groups(s) # <<>> THEN To4(IP6(ParseIPv6Groups(s)))
  ELSE NoIP

\* net.SplitHostPort: [host, port, err]
SplitHostPort(hostport) ==
  LET i   == LastIndexOf(hostport, ":")
      bad == [host |-> <<>>, port |-> <<>>, err |-> TRUE]
  IN  IF i = 0 THEN bad                                   \* missing port
      ELSE IF hostport[1] = "["
      THEN LET end == IndexOf(hostport, "]")
           IN  IF end = 0 THEN bad                        \* missing ']'
               ELSE IF end + 1 # i THEN bad               \* missing port / too many colons
               ELSE IF IndexOf(SubSeq(hostport, 2, Len(hostport)), "[") # 0 THEN bad
               ELSE IF IndexOf(SubSeq(hostport, end + 1, Len(hostport)), "]") # 0 THEN bad
               ELSE [host |-> SubSeq(hostport, 2, end - 1),
                     port |-> SubSeq(hostport, i + 1, Len(hostport)),
                     err  |-> FALSE]
      ELSE LET host == SubSeq(hostport, 1, i - 1)
           IN  IF IndexOf(host, ":") # 0 THEN bad         \* too many colons
               ELSE IF IndexOf(hostport, "[") # 0 THEN bad
               ELSE IF IndexOf(hostport, "]") # 0 THEN bad
               ELSE [host |-> host,
                     port |-> SubSeq(hostport, i + 1, Len(hostport)),
                     err  |-> FALSE]

\* net.JoinHostPort, which the transport uses to print a peer's address
JoinHostPort(host, port) ==
  IF IndexOf(host, ":") # 0 \/ IndexOf(host, "%") # 0
  THEN <<"[">> \o host \o <<"]", ":">> \o port
  ELSE host \o <<":">> \o port

Pow2(n) == 2 ^ n

\* net.IPNet.Contains for a network [fam, w, len]
InNet(ip, n) ==
  /\ ip.fam # 0
  /\ ip.fam = n.fam
  /\ \A i \in 1..Len(ip.w) :
       LET width == IF ip.fam = 4 THEN 8 ELSE 16
           bits  == Max(0, Min(width, n.len - width * (i - 1)))
           sh    == Pow2(width - bits)
       IN  ip.w[i] \div sh = n.w[i] \div sh

IsUnspecified(ip) == ip.fam # 0 /\ \A i \in 1..Len(ip.w) : ip.w[i] = 0

IsLoopback(ip) ==
  \/ ip.fam = 4 /\ ip.w[1] = 127
  \/ ip.fam = 6 /\ ip.w = Zeros(7) \o <<1>>

IsMulticast(ip) ==
  \/ ip.fam = 4 /\ ip.w[1] \div 16 = 14
  \/ ip.fam = 6 /\ ip.w[1] \div 256 = 255

IsLinkLocalUnicast(ip) ==
  \/ ip.fam = 4 /\ ip.w[1] = 169 /\ ip.w[2] = 254
  \/ ip.fam = 6 /\ ip.w[1] \div 64 = 1018

\* net.IP.IsGlobalUnicast
IsGlobalUnicast(ip) ==
  /\ ip.fam # 0
  /\ ip # IP4(255, 255, 255, 255)
  /\ ~IsUnspecified(ip)
  /\ ~IsLoopback(ip)
  /\ ~IsMulticast(ip)
  /\ ~IsLinkLocalUnicast(ip)

--------------------------------------------------------------------------
(* Package p2p/netutil (Netlist, IsLAN, IsSpecialNetwork).                 *)

Net4(a, b, c, d, len) == [fam |-> 4, w |-> <<a, b, c, d>>, len |-> len]

Net6(g, len) == [fam |-> 6, w |-> g, len |-> len]

NoNet == [fam |-> 0, w |-> <<>>, len |-> 0]

\* net.ParseCIDR of "address/prefix-length"; NoNet if the text is no CIDR
ParseCIDR(s) ==
  LET i    == IndexOf(s, "/")
      addr == SubSeq(s, 1, i - 1)
      mask == SubSeq(s, i + 1, Len(s))
      ip   == IF IndexOf(addr, ":") # 0 THEN IP6(ParseIPv6Groups(addr)) ELSE ParseIP(addr)
  IN  IF i = 0 \/ ip.w = <<>> \/ Len(mask) # 1 THEN NoNet
      ELSE IF mask[1] \notin DecLexemes THEN NoNet
      ELSE IF DecValue(mask[1]) > (IF ip.fam = 4 THEN 32 ELSE 128) THEN NoNet
      ELSE [fam |-> ip.fam, w |-> ip.w, len |-> DecValue(mask[1])]

\* Netlist.Add: append the network a CIDR text denotes
Add(list, cidr) == Append(list, ParseCIDR(cidr))

\* Netlist.Contains: does the address match any network of the list
Contains(list, ip) == \E k \in 1..Len(list) : InNet(ip, list[k])

lan4 == << Net4(0, 0, 0, 0, 8), Net4(10, 0, 0, 0, 8),
           Net4(172, 16, 0, 0, 12), Net4(192, 168, 0, 0, 16) >>

lan6 == << Net6(<<65152, 0, 0, 0, 0, 0, 0, 0>>, 10),
           Net6(<<64512, 0, 0, 0, 0, 0, 0, 0>>, 7) >>

special4 == << Net4(192, 0, 0, 0, 29), Net4(192, 0, 0, 9, 32),
               Net4(192, 0, 0, 170, 32), Net4(192, 0, 0, 171, 32),
               Net4(192, 0, 2, 0, 24), Net4(192, 31, 196, 0, 24),
               Net4(192, 52, 193, 0, 24), Net4(192, 88, 99, 0, 24),
               Net4(192, 175, 48, 0, 24), Net4(198, 18, 0, 0, 15),
               Net4(198, 51, 100, 0, 24), Net4(203, 0, 113, 0, 24),
               Net4(255, 255, 255, 255, 32) >>

special6 == << Net6(<<256, 0, 0, 0, 0, 0, 0, 0>>, 64),
               Net6(<<8193, 0, 0, 0, 0, 0, 0, 0>>, 32),
               Net6(<<8193, 3512, 0, 0, 0, 0, 0, 0>>, 32),
               Net6(<<8194, 0, 0, 0, 0, 0, 0, 0>>, 16) >>

\* netutil.IsLAN: loopback, or in a private-use network
IsLAN(ip) ==
  \/ IsLoopback(ip)
  \/ IF ip.fam = 4 THEN Contains(lan4, ip) ELSE Contains(lan6, ip)

\* netutil.IsSpecialNetwork: multicast, or in a special-use network
\* (broadcast, documentation, benchmarking, relay anycast, ...)
IsSpecialNetwork(ip) ==
  \/ IsMulticast(ip)
  \/ IF ip.fam = 4 THEN Contains(special4, ip) ELSE Contains(special6, ip)

--------------------------------------------------------------------------
(* Package mime.                                                           *)

\* lexemes that are tokens of RFC 7230 (no separators, no spaces)
MimeTokens == { "application", "json", "text", "plain", "xml" }

\* lexemes that are a well-formed parameter, attribute=value
ParamLexemes == { "charset=utf-8", "q=1" }

ParamKey(t) == IF t = "charset=utf-8" THEN "charset" ELSE "q"

\* mime.checkMediaTypeDisposition: type, or type "/" subtype, and nothing more
checkMediaTypeDisposition(mt) ==
  \/ Len(mt) = 1 /\ mt[1] \in MimeTokens
  \/ Len(mt) = 3 /\ mt[1] \in MimeTokens /\ mt[2] = "/" /\ mt[3] \in MimeTokens

RECURSIVE ParamsOK(_, _)
\* the parameter loop of mime.ParseMediaType: TRUE iff it ends without error
ParamsOK(v, seen) ==
  LET t == TrimLeft(v)
  IN  IF t = <<>> THEN TRUE
      ELSE IF Head(t) = ";" /\ TrimLeft(Tail(t)) # <<>>
                /\ Head(TrimLeft(Tail(t))) \in ParamLexemes
      THEN LET p == Head(TrimLeft(Tail(t)))
           IN  IF ParamKey(p) \in seen THEN FALSE          \* duplicate parameter name
               ELSE ParamsOK(Tail(TrimLeft(Tail(t))), seen \cup {ParamKey(p)})
      ELSE TrimSpace(t) = <<";">>                          \* a trailing semicolon is ignored

\* mime.ParseMediaType: [mt, err]
ParseMediaType(v) ==
  LET i    == IndexOf(v, ";")
      base == IF i = 0 THEN v ELSE SubSeq(v, 1, i - 1)
      mt   == TrimSpace(ToLower(base))
  IN  IF ~checkMediaTypeDisposition(mt) THEN [mt |-> <<>>, err |-> TRUE]
      ELSE IF ~ParamsOK(SubSeq(v, Len(base) + 1, Len(v)), {})
      THEN [mt |-> mt, err |-> TRUE]
      ELSE [mt |-> mt, err |-> FALSE]

--------------------------------------------------------------------------
(* rpc/http.go                                                             *)

contentType == <<"application", "/", "json">>

maxHTTPRequestContentLength == 131072

StatusOK == 200
StatusNoContent == 204
StatusForbidden == 403
StatusMethodNotAllowed == 405
StatusRequestEntityTooLarge == 413
StatusUnsupportedMediaType == 415

RECURSIVE ScanAddresses(_, _)
\* the inner loop of getIP: march from index i to the left until an address qualifies
ScanAddresses(addresses, i) ==
  IF i < 1 THEN NoIP
  ELSE LET ip     == TrimSpace(addresses[i])
           realIP == ParseIP(ip)
       IN  IF realIP = NoIP THEN ScanAddresses(addresses, i - 1)
           ELSE IF ~IsGlobalUnicast(realIP) \/ IsLAN(realIP) \/ IsSpecialNetwork(realIP)
           THEN ScanAddresses(addresses, i - 1)
           ELSE ParseIP(ip)

RECURSIVE ScanAddressesLeft(_, _)
\* the scan in the wrong direction: from index i to the right
ScanAddressesLeft(addresses, i) ==
  IF i > Len(addresses) THEN NoIP
  ELSE LET realIP == ParseIP(TrimSpace(addresses[i]))
       IN  IF realIP = NoIP \/ ~IsGlobalUnicast(realIP) \/ IsLAN(realIP)
                \/ IsSpecialNetwork(realIP)
           THEN ScanAddressesLeft(addresses, i + 1)
           ELSE realIP

\* ScanHeader marching from left to right
ScanHeader_LeftToRight(value) == ScanAddressesLeft(Split(value, ","), 1)

\* one header of getIP's outer loop
ScanHeader(value) ==
  LET addresses == Split(value, ",") IN ScanAddresses(addresses, Len(addresses))

\* the transport-level part of getIP
RemoteIP(r) ==
  LET hp == SplitHostPort(r.RemoteAddr)
      remoteAddr == IF hp.err THEN Split(r.RemoteAddr, ":")[1] ELSE hp.host
  IN  ParseIP(remoteAddr)

\* getIP consulting the headers whatever the trust flag says
getIP_TrustAlways(r, rp) ==
  IF ScanHeader(r.XForwardedFor) # NoIP THEN ScanHeader(r.XForwardedFor)
  ELSE IF ScanHeader(r.XRealIp) # NoIP THEN ScanHeader(r.XRealIp)
  ELSE RemoteIP(r)

\* getIP consulting X-Real-Ip before X-Forwarded-For
getIP_RealIpFirst(r, rp) ==
  IF rp /\ ScanHeader(r.XRealIp) # NoIP THEN ScanHeader(r.XRealIp)
  ELSE IF rp /\ ScanHeader(r.XForwardedFor) # NoIP THEN ScanHeader(r.XForwardedFor)
  ELSE RemoteIP(r)

getIP(r, rp) ==
  IF rp /\ ScanHeader(r.XForwardedFor) # NoIP THEN ScanHeader(r.XForwardedFor)
  ELSE IF rp /\ ScanHeader(r.XRealIp) # NoIP THEN ScanHeader(r.XRealIp)
  ELSE RemoteIP(r)

\* an error message: a format text and the numbers printed into it
NoBody == [text |-> "", nums |-> <<>>]

\* validateRequest refusing a declared length equal to the cap
validateRequest_OffByOne(r) ==
  IF r.Method = "PUT" \/ r.Method = "DELETE"
  THEN [code |-> StatusMethodNotAllowed, err |-> TRUE,
        msg |-> [text |-> "method not allowed", nums |-> <<>>]]
  ELSE IF r.ContentLength >= maxHTTPRequestContentLength
  THEN [code |-> StatusRequestEntityTooLarge, err |-> TRUE,
        msg |-> [text |-> "content length too large (%d>%d)",
                 nums |-> <<r.ContentLength, maxHTTPRequestContentLength>>]]
  ELSE LET p == ParseMediaType(r.ContentType)
       IN  IF r.Method # "OPTIONS" /\ (p.err \/ p.mt # contentType)
           THEN [code |-> StatusUnsupportedMediaType, err |-> TRUE,
                 msg |-> [text |-> "invalid content type, only application/json is supported",
                          nums |-> <<>>]]
           ELSE [code |-> 0, err |-> FALSE, msg |-> NoBody]

\* validateRequest checking the content type only when the header is present
validateRequest_MissingTypeOK(r) ==
  IF r.Method = "PUT" \/ r.Method = "DELETE"
  THEN [code |-> StatusMethodNotAllowed, err |-> TRUE,
        msg |-> [text |-> "method not allowed", nums |-> <<>>]]
  ELSE IF r.ContentLength > maxHTTPRequestContentLength
  THEN [code |-> StatusRequestEntityTooLarge, err |-> TRUE,
        msg |-> [text |-> "content length too large (%d>%d)",
                 nums |-> <<r.ContentLength, maxHTTPRequestContentLength>>]]
  ELSE LET p == ParseMediaType(r.ContentType)
       IN  IF r.Method # "OPTIONS" /\ r.ContentType # <<>> /\ (p.err \/ p.mt # contentType)
           THEN [code |-> StatusUnsupportedMediaType, err |-> TRUE,
                 msg |-> [text |-> "invalid content type, only application/json is supported",
                          nums |-> <<>>]]
           ELSE [code |-> 0, err |-> FALSE, msg |-> NoBody]

\* validateRequest checking the declared size before the method
validateRequest_SizeFirst(r) ==
  IF r.ContentLength > maxHTTPRequestContentLength
  THEN [code |-> StatusRequestEntityTooLarge, err |-> TRUE,
        msg |-> [text |-> "content length too large (%d>%d)",
                 nums |-> <<r.ContentLength, maxHTTPRequestContentLength>>]]
  ELSE IF r.Method = "PUT" \/ r.Method = "DELETE"
  THEN [code |-> StatusMethodNotAllowed, err |-> TRUE,
        msg |-> [text |-> "method not allowed", nums |-> <<>>]]
  ELSE LET p == ParseMediaType(r.ContentType)
       IN  IF r.Method # "OPTIONS" /\ (p.err \/ p.mt # contentType)
           THEN [code |-> StatusUnsupportedMediaType, err |-> TRUE,
                 msg |-> [text |-> "invalid content type, only application/json is supported",
                          nums |-> <<>>]]
           ELSE [code |-> 0, err |-> FALSE, msg |-> NoBody]

\* validateRequest: [code, err, msg]; msg is the message of the error
validateRequest(r) ==
  IF r.Method = "PUT" \/ r.Method = "DELETE"
  THEN [code |-> StatusMethodNotAllowed, err |-> TRUE,
        msg |-> [text |-> "method not allowed", nums |-> <<>>]]
  ELSE IF r.ContentLength > maxHTTPRequestContentLength
  THEN [code |-> StatusRequestEntityTooLarge, err |-> TRUE,
        msg |-> [text |-> "content length too large (%d>%d)",
                 nums |-> <<r.ContentLength, maxHTTPRequestContentLength>>]]
  ELSE LET p == ParseMediaType(r.ContentType)
       IN  IF r.Method # "OPTIONS" /\ (p.err \/ p.mt # contentType)
           THEN [code |-> StatusUnsupportedMediaType, err |-> TRUE,
                 msg |-> [text |-> "invalid content type, only application/json is supported",
                          nums |-> <<>>]]
           ELSE [code |-> 0, err |-> FALSE, msg |-> NoBody]

\* newCorsHandler wrapping the server whatever the list of origins
newCorsHandler_AlwaysWrap(allowedOrigins) == TRUE

\* newCorsHandler: is the server wrapped by a CORS handler
newCorsHandler(allowedOrigins) == Len(allowedOrigins) # 0

\* newVHostHandler: the set of lower-cased names
newVHostHandler(vh) == { ToLower(vh[k]) : k \in 1..Len(vh) }

RECURSIVE AddAll(_, _)
AddAll(list, masks) ==
  IF masks = <<>> THEN list ELSE AddAll(Add(list, Head(masks)), Tail(masks))

\* newAllowIPHandler taking an empty list of masks for "no restriction"
newAllowIPHandler_EmptyAllowsAll(allowIPmasks) ==
  IF allowIPmasks = <<>>
  THEN << Net4(0, 0, 0, 0, 0), Net6(Zeros(8), 0) >>
  ELSE AddAll(<<>>, allowIPmasks)

\* newAllowIPHandler: the Netlist of the masks
newAllowIPHandler(allowIPmasks) == AddAll(<<>>, allowIPmasks)

--------------------------------------------------------------------------
(* State.  args are the arguments of NewHTTPServer; allowedIPs,            *)
(* reverseproxy, vhosts and corsOn are the fields of the handlers it       *)
(* builds and preflightStatus is the status the CORS handler answers a     *)
(* preflight with (200 or 204, fixed by the version of the library built   *)
(* in; 0 without a CORS handler); conns holds the requests in flight, one  *)
(* per connection.                                                         *)

Methods == { "GET", "POST", "PUT", "DELETE", "OPTIONS" }

NoReq ==
  [ Method |-> "", ContentLength |-> 0, RawQuery |-> "", ContentType |-> <<>>,
    Host |-> <<>>, RemoteAddr |-> <<>>, XForwardedFor |-> <<>>, XRealIp |-> <<>>,
    ACRM |-> FALSE ]

\* pc: the handler that runs next; trace: the handlers entered so far;
\* status, ctype, body: the response; wrote: number of responses written by
\* the pipeline itself; ip: the identity the IP gate resolved; bodyLen: the
\* bytes the client sent as the body, bytesRead: those of them the dispatcher
\* got; failed: the dispatcher failed on the request
IdleConn ==
  [ pc |-> "idle", req |-> NoReq, trace |-> <<>>, ip |-> NoIP,
    status |-> 0, ctype |-> "", body |-> NoBody, newline |-> FALSE, wrote |-> 0,
    valid |-> FALSE, codec |-> "none", dispatched |-> 0, bytesRead |-> 0,
    corsSeen |-> FALSE, bodyLen |-> 0, failed |-> FALSE ]

\* number of bytes beyond the cap a client may send
MaxOver == 1

BodyLens == {0, 1} \cup { maxHTTPRequestContentLength + k : k \in 0..MaxOver }

\* http.Error(w, msg, code): plain text, the status, the message and a line feed
HttpError(c, msg, code) ==
  [c EXCEPT !.status = code, !.ctype = "text/plain; charset=utf-8",
            !.body = msg, !.newline = TRUE, !.wrote = c.wrote + 1, !.pc = "done"]

Enter(c, name) == [c EXCEPT !.trace = Append(c.trace, name)]

\* the http.Server hands a request to the outermost handler
Accept(i, r) ==
  /\ conns[i].pc = "idle"
  /\ conns' = [conns EXCEPT ![i] = [IdleConn EXCEPT !.pc = "allowip", !.req = r]]
  /\ UNCHANGED <<args, allowedIPs, reverseproxy, vhosts, corsOn, preflightStatus>>

\* allowIPHandler.ServeHTTP letting an unresolved identity through
allowIPHandler_ServeHTTP_NilGrant(i) ==
  /\ conns[i].pc = "allowip"
  /\ LET c  == Enter(conns[i], "allowIPHandler")
         ip == getIP(c.req, reverseproxy)
     IN  conns' = [conns EXCEPT ![i] =
           IF ip = NoIP \/ Contains(allowedIPs, ip)
           THEN [c EXCEPT !.ip = ip, !.pc = "vhost"]
           ELSE HttpError([c EXCEPT !.ip = ip], NoBody, StatusForbidden)]
  /\ UNCHANGED <<args, allowedIPs, reverseproxy, vhosts, corsOn, preflightStatus>>

\* allowIPHandler.ServeHTTP answering the no-body GET before it looks at the address
allowIPHandler_ServeHTTP_ProbeFirst(i) ==
  /\ conns[i].pc = "allowip"
  /\ LET c  == Enter(conns[i], "allowIPHandler")
         r  == c.req
         ip == getIP(r, reverseproxy)
     IN  conns' = [conns EXCEPT ![i] =
           IF r.Method = "GET" /\ r.ContentLength = 0 /\ r.RawQuery = ""
           THEN [c EXCEPT !.ip = ip, !.status = StatusOK, !.pc = "done"]
           ELSE IF Contains(allowedIPs, ip)
           THEN [c EXCEPT !.ip = ip, !.pc = "vhost"]
           ELSE HttpError([c EXCEPT !.ip = ip], NoBody, StatusForbidden)]
  /\ UNCHANGED <<args, allowedIPs, reverseproxy, vhosts, corsOn, preflightStatus>>

\* (h *allowIPHandler) ServeHTTP
allowIPHandler_ServeHTTP(i) ==
  /\ conns[i].pc = "allowip"
  /\ LET c  == Enter(conns[i], "allowIPHandler")
         ip == getIP(c.req, reverseproxy)
     IN  conns' = [conns EXCEPT ![i] =
           IF Contains(allowedIPs, ip)
           THEN [c EXCEPT !.ip = ip, !.pc = "vhost"]
           ELSE HttpError([c EXCEPT !.ip = ip], NoBody, StatusForbidden)]
  /\ UNCHANGED <<args, allowedIPs, reverseproxy, vhosts, corsOn, preflightStatus>>

\* the handler virtualHostHandler.next is: the CORS handler if there is one
NextOfVHost == IF corsOn THEN "cors" ELSE "base"

\* virtualHostHandler.ServeHTTP taking an empty whitelist for "no restriction"
virtualHostHandler_ServeHTTP_EmptyAllowsAll(i) ==
  /\ conns[i].pc = "vhost"
  /\ LET c    == Enter(conns[i], "virtualHostHandler")
         r    == c.req
         hp   == SplitHostPort(r.Host)
         host == IF hp.err THEN r.Host ELSE hp.host
     IN  conns' = [conns EXCEPT ![i] =
           IF r.Host = <<>> THEN [c EXCEPT !.pc = NextOfVHost]
           ELSE IF ParseIP(host) # NoIP THEN [c EXCEPT !.pc = NextOfVHost]
           ELSE IF vhosts = {} \/ <<"*">> \in vhosts THEN [c EXCEPT !.pc = NextOfVHost]
           ELSE IF host \in vhosts THEN [c EXCEPT !.pc = NextOfVHost]
           ELSE HttpError(c, [text |-> "invalid host specified", nums |-> <<>>],
                          StatusForbidden)]
  /\ UNCHANGED <<args, allowedIPs, reverseproxy, vhosts, corsOn, preflightStatus>>

\* virtualHostHandler.ServeHTTP without the return after http.Error
virtualHostHandler_ServeHTTP_NoReturn(i) ==
  /\ conns[i].pc = "vhost"
  /\ LET c    == Enter(conns[i], "virtualHostHandler")
         r    == c.req
         hp   == SplitHostPort(r.Host)
         host == IF hp.err THEN r.Host ELSE hp.host
     IN  conns' = [conns EXCEPT ![i] =
           IF r.Host = <<>> THEN [c EXCEPT !.pc = NextOfVHost]
           ELSE IF ParseIP(host) # NoIP THEN [c EXCEPT !.pc = NextOfVHost]
           ELSE IF <<"*">> \in vhosts THEN [c EXCEPT !.pc = NextOfVHost]
           ELSE IF host \in vhosts THEN [c EXCEPT !.pc = NextOfVHost]
           ELSE [HttpError(c, [text |-> "invalid host specified", nums |-> <<>>],
                           StatusForbidden) EXCEPT !.pc = NextOfVHost]]
  /\ UNCHANGED <<args, allowedIPs, reverseproxy, vhosts, corsOn, preflightStatus>>

\* virtualHostHandler.ServeHTTP adding every name it refuses to the set
virtualHostHandler_ServeHTTP_Learns(i) ==
  /\ conns[i].pc = "vhost"
  /\ LET c    == Enter(conns[i], "virtualHostHandler")
         r    == c.req
         hp   == SplitHostPort(r.Host)
         host == IF hp.err THEN r.Host ELSE hp.host
         ok   == \/ r.Host = <<>>
                 \/ ParseIP(host) # NoIP
                 \/ <<"*">> \in vhosts
                 \/ host \in vhosts
     IN  /\ conns' = [conns EXCEPT ![i] =
              IF ok THEN [c EXCEPT !.pc = NextOfVHost]
              ELSE HttpError(c, [text |-> "invalid host specified", nums |-> <<>>],
                             StatusForbidden)]
         /\ vhosts' = IF ok THEN vhosts ELSE vhosts \cup {host}
  /\ UNCHANGED <<args, allowedIPs, reverseproxy, corsOn, preflightStatus>>

\* virtualHostHandler.ServeHTTP delegating for IP literals and listed names only
virtualHostHandler_ServeHTTP_ExactOnly(i) ==
  /\ conns[i].pc = "vhost"
  /\ LET c    == Enter(conns[i], "virtualHostHandler")
         r    == c.req
         hp   == SplitHostPort(r.Host)
         host == IF hp.err THEN r.Host ELSE hp.host
     IN  conns' = [conns EXCEPT ![i] =
           IF ParseIP(host) # NoIP THEN [c EXCEPT !.pc = NextOfVHost]
           ELSE IF host \in vhosts THEN [c EXCEPT !.pc = NextOfVHost]
           ELSE HttpError(c, [text |-> "invalid host specified", nums |-> <<>>],
                          StatusForbidden)]
  /\ UNCHANGED <<args, allowedIPs, reverseproxy, vhosts, corsOn, preflightStatus>>

\* (h *virtualHostHandler) ServeHTTP
virtualHostHandler_ServeHTTP(i) ==
  /\ conns[i].pc = "vhost"
  /\ LET c    == Enter(conns[i], "virtualHostHandler")
         r    == c.req
         hp   == SplitHostPort(r.Host)
         host == IF hp.err THEN r.Host ELSE hp.host
     IN  conns' = [conns EXCEPT ![i] =
           IF r.Host = <<>> THEN [c EXCEPT !.pc = NextOfVHost]
           ELSE IF ParseIP(host) # NoIP THEN [c EXCEPT !.pc = NextOfVHost]
           ELSE IF <<"*">> \in vhosts THEN [c EXCEPT !.pc = NextOfVHost]
           ELSE IF host \in vhosts THEN [c EXCEPT !.pc = NextOfVHost]
           ELSE HttpError(c, [text |-> "invalid host specified", nums |-> <<>>],
                          StatusForbidden)]
  /\ UNCHANGED <<args, allowedIPs, reverseproxy, vhosts, corsOn, preflightStatus>>

\* the handler cors.New(...).Handler(srv) returns: a preflight request is
\* answered by the CORS handler itself (with preflightStatus), any other
\* request goes on to the server
corsHandler_ServeHTTP(i) ==
  /\ conns[i].pc = "cors"
  /\ LET c == [Enter(conns[i], "cors") EXCEPT !.corsSeen = TRUE]
     IN  conns' = [conns EXCEPT ![i] =
           IF c.req.Method = "OPTIONS" /\ c.req.ACRM
           THEN [c EXCEPT !.status = preflightStatus, !.pc = "done"]
           ELSE [c EXCEPT !.pc = "base"]]
  /\ UNCHANGED <<args, allowedIPs, reverseproxy, vhosts, corsOn, preflightStatus>>

\* Server.ServeHTTP without the return after http.Error
Server_ServeHTTP_NoReturn(i) ==
  /\ conns[i].pc = "base"
  /\ LET c == Enter(conns[i], "Server")
         r == c.req
         v == validateRequest(r)
     IN  conns' = [conns EXCEPT ![i] =
           IF r.Method = "GET" /\ r.ContentLength = 0 /\ r.RawQuery = ""
           THEN [c EXCEPT !.status = StatusOK, !.pc = "done"]
           ELSE IF v.err
           THEN [HttpError(c, v.msg, v.code) EXCEPT !.codec = "open", !.pc = "dispatch"]
           ELSE [c EXCEPT !.valid = TRUE, !.codec = "open",
                          !.ctype = "application/json", !.pc = "dispatch"]]
  /\ UNCHANGED <<args, allowedIPs, reverseproxy, vhosts, corsOn, preflightStatus>>

\* Server.ServeHTTP validating before it looks for the no-body GET
Server_ServeHTTP_ValidateFirst(i) ==
  /\ conns[i].pc = "base"
  /\ LET c == Enter(conns[i], "Server")
         r == c.req
         v == validateRequest(r)
     IN  conns' = [conns EXCEPT ![i] =
           IF v.err THEN HttpError(c, v.msg, v.code)
           ELSE IF r.Method = "GET" /\ r.ContentLength = 0 /\ r.RawQuery = ""
           THEN [c EXCEPT !.valid = TRUE, !.status = StatusOK, !.pc = "done"]
           ELSE [c EXCEPT !.valid = TRUE, !.codec = "open",
                          !.ctype = "application/json", !.pc = "dispatch"]]
  /\ UNCHANGED <<args, allowedIPs, reverseproxy, vhosts, corsOn, preflightStatus>>

\* Server.ServeHTTP keeping the request in a field of the shared server: it
\* validates the request of another connection in flight, if there is one
Server_ServeHTTP_SharedRequest(i) ==
  /\ conns[i].pc = "base"
  /\ LET c      == Enter(conns[i], "Server")
         others == { j \in DOMAIN conns : j # i /\ conns[j].pc # "idle" }
         r      == IF others = {} THEN c.req ELSE conns[CHOOSE j \in others : TRUE].req
         v      == validateRequest(r)
     IN  conns' = [conns EXCEPT ![i] =
           IF r.Method = "GET" /\ r.ContentLength = 0 /\ r.RawQuery = ""
           THEN [c EXCEPT !.status = StatusOK, !.pc = "done"]
           ELSE IF v.err THEN HttpError(c, v.msg, v.code)
           ELSE [c EXCEPT !.valid = TRUE, !.codec = "open",
                          !.ctype = "application/json", !.pc = "dispatch"]]
  /\ UNCHANGED <<args, allowedIPs, reverseproxy, vhosts, corsOn, preflightStatus>>

\* (srv *Server) ServeHTTP, up to the call of ServeSingleRequest; the two
\* log.Debug calls (and the getIP call that feeds them) change no state
Server_ServeHTTP(i) ==
  /\ conns[i].pc = "base"
  /\ LET c == Enter(conns[i], "Server")
         r == c.req
         v == validateRequest(r)
     IN  conns' = [conns EXCEPT ![i] =
           IF r.Method = "GET" /\ r.ContentLength = 0 /\ r.RawQuery = ""
           THEN [c EXCEPT !.status = StatusOK, !.pc = "done"]
           ELSE IF v.err THEN HttpError(c, v.msg, v.code)
           ELSE [c EXCEPT !.valid = TRUE, !.codec = "open",
                          !.ctype = "application/json", !.pc = "dispatch"]]
  /\ UNCHANGED <<args, allowedIPs, reverseproxy, vhosts, corsOn, preflightStatus>>

\* the dispatcher reading r.Body itself, without io.LimitReader
ServeSingleRequest_Unlimited(i) ==
  /\ conns[i].pc = "dispatch"
  /\ \E n \in BodyLens, fails \in BOOLEAN :
       conns' = [conns EXCEPT ![i] =
         [Enter(conns[i], "dispatcher") EXCEPT
            !.dispatched = conns[i].dispatched + 1,
            !.bodyLen = n,
            !.bytesRead = n,
            !.failed = fails,
            !.status = StatusOK,
            !.pc = "close"]]
  /\ UNCHANGED <<args, allowedIPs, reverseproxy, vhosts, corsOn, preflightStatus>>

\* srv.ServeSingleRequest(codec, OptionMethodInvocation): the dispatcher reads
\* the body through io.LimitReader and answers, or fails
ServeSingleRequest(i) ==
  /\ conns[i].pc = "dispatch"
  /\ \E n \in BodyLens, fails \in BOOLEAN :
       conns' = [conns EXCEPT ![i] =
         [Enter(conns[i], "dispatcher") EXCEPT
            !.dispatched = conns[i].dispatched + 1,
            !.bodyLen = n,
            !.bytesRead = Min(n, maxHTTPRequestContentLength),
            !.failed = fails,
            !.status = StatusOK,
            !.pc = "close"]]
  /\ UNCHANGED <<args, allowedIPs, reverseproxy, vhosts, corsOn, preflightStatus>>

\* codec.Close() called after a successful dispatch only, not deferred
codec_Close_OnSuccessOnly(i) ==
  /\ conns[i].pc = "close"
  /\ conns' = [conns EXCEPT ![i] =
       [conns[i] EXCEPT !.codec = IF conns[i].failed THEN "open" ELSE "closed",
                        !.pc = "done"]]
  /\ UNCHANGED <<args, allowedIPs, reverseproxy, vhosts, corsOn, preflightStatus>>

\* defer codec.Close()
codec_Close(i) ==
  /\ conns[i].pc = "close"
  /\ conns' = [conns EXCEPT ![i] = [conns[i] EXCEPT !.codec = "closed", !.pc = "done"]]
  /\ UNCHANGED <<args, allowedIPs, reverseproxy, vhosts, corsOn, preflightStatus>>

\* the outermost handler has returned: the response is sent and the
\* connection takes its next request
Respond(i) ==
  /\ conns[i].pc = "done"
  /\ conns' = [conns EXCEPT ![i] = IdleConn]
  /\ UNCHANGED <<args, allowedIPs, reverseproxy, vhosts, corsOn, preflightStatus>>

\* NewHTTPServer(cors, vhosts, allowIP, behindreverseproxy, srv), then n connections
NewHTTPServer(a, n) ==
  /\ args = a
  /\ corsOn = newCorsHandler(a.cors)
  /\ preflightStatus \in (IF newCorsHandler(a.cors)
                           THEN {StatusOK, StatusNoContent} ELSE {0})
  /\ vhosts = newVHostHandler(a.vhosts)
  /\ allowedIPs = newAllowIPHandler(a.allowIP)
  /\ reverseproxy = a.behindreverseproxy
  /\ conns = [i \in 1..n |-> IdleConn]

--------------------------------------------------------------------------
(* Texts the specifications draw their inputs from.                        *)

Port == <<"8545">>

LocalhostName == <<"localhost">>

CIDR(addr, len) == addr \o <<"/", len>>

TenSlash8 == CIDR(<<"10.0.0.0">>, "8")

EightSlash8 == CIDR(<<"8.0.0.0">>, "8")

LoopbackSlash128 == CIDR(<<":", ":", "1">>, "128")

JSONType == <<"application", "/", "json">>

ContentTypes ==
  { <<>>,
    JSONType,
    <<"Application", "/", "JSON">>,
    JSONType \o <<";", " ", "charset=utf-8">>,
    JSONType \o <<";", "charset">>,
    <<"application", "/">>,
    <<"text", "/", "plain">> }

--------------------------------------------------------------------------
(* The pipeline, one connection, requests of every method, size and type.  *)

Configs ==
  [ cors : { <<>>, << <<"http://wallet.example">> >> },
    vhosts : { <<>>, <<LocalhostName>> },
    allowIP : { <<>>, <<EightSlash8>> },
    behindreverseproxy : BOOLEAN ]

Requests ==
  [ Method : Methods,
    ContentLength : { -1, 0, maxHTTPRequestContentLength, maxHTTPRequestContentLength + 1 },
    RawQuery : { "", "id=1" },
    ContentType : ContentTypes,
    Host : { LocalhostName \o <<":">> \o Port, <<"evil.example">> },
    RemoteAddr : { JoinHostPort(<<"8.8.8.8">>, Port) },
    XForwardedFor : { <<>>, <<"9.9.9.9">> },
    XRealIp : { <<>> },
    ACRM : BOOLEAN ]

Init == \E a \in Configs : NewHTTPServer(a, 1)

Next ==
  \/ \E r \in Requests : Accept(1, r)
  \/ allowIPHandler_ServeHTTP(1)
  \/ virtualHostHandler_ServeHTTP(1)
  \/ corsHandler_ServeHTTP(1)
  \/ Server_ServeHTTP(1)
  \/ ServeSingleRequest(1)
  \/ codec_Close(1)
  \/ Respond(1)

Spec == Init /\ [][Next]_vars

--------------------------------------------------------------------------
(* The pipeline with the inputs of identity resolution: peers' addresses   *)
(* as the transport prints them and malformed ones, forwarding headers.    *)

Loopback6 == <<":", ":", "1">>

LinkLocalZone == <<"fe80", ":", ":", "1", "%", "eth0">>

\* the peers of a TCP listener: the transport prints JoinHostPort(host, port)
PeerHosts == { <<"8.8.8.8">>, <<"10.0.0.5">>, Loopback6, LinkLocalZone }

\* forwarded-for chains, as the sequence of their entries
ExampleEntries == << <<"10.0.0.5">>, <<"203.0.113.7">>, <<"10.0.0.1">> >>

PublicEntries == << <<"10.0.0.5">>, <<"8.8.8.8">>, <<"10.0.0.1">> >>

Chains ==
  { <<>>, ExampleEntries, PublicEntries,
    << <<"9.9.9.9">>, <<"8.8.8.8">> >>,
    << <<"8.8.8.8">>, <<"unknown">> >>,
    << <<"2606", ":", ":", "1">>, <<"192.168.1.9">> >>,
    << <<"224.0.0.1">>, <<"169.254.1.1">>, <<"127.0.0.1">> >> }

RECURSIVE Join(_, _)
\* the entries of a chain, sep between them
Join(entries, sep) ==
  IF entries = <<>> THEN <<>>
  ELSE IF Len(entries) = 1 THEN entries[1]
  ELSE entries[1] \o sep \o Join(Tail(entries), sep)

\* proxies write "a, b"; some write "a,b"
Separators == { <<",", " ">>, <<",">> }

ForwardedChains == { Join(ch, sep) : ch \in Chains, sep \in Separators }

RealIps == { <<>>, <<"9.9.9.9">>, <<"10.0.0.1">> }

\* the forwarded-for chain of the specification's example
ExampleChain == Join(ExampleEntries, <<",", " ">>)

PublicChain == Join(PublicEntries, <<",", " ">>)

IPConfigs ==
  [ cors : { <<>>, << <<"http://wallet.example">> >> },
    vhosts : { <<>> },
    allowIP : { <<>>, <<TenSlash8>>, <<EightSlash8, LoopbackSlash128>>,
                <<CIDR(<<"0.0.0.0">>, "0")>> },
    behindreverseproxy : BOOLEAN ]

IPRequests ==
  [ Method : { "POST" },
    ContentLength : { 1 },
    RawQuery : { "" },
    ContentType : { JSONType },
    Host : { <<>> },
    RemoteAddr : { JoinHostPort(h, Port) : h \in PeerHosts }
                   \cup { <<"8.8.8.8">>, Loopback6, <<"@">>, <<>> },
    XForwardedFor : ForwardedChains,
    XRealIp : RealIps,
    ACRM : { FALSE } ]

InitIP == \E a \in IPConfigs : NewHTTPServer(a, 1)

NextIP ==
  \/ \E r \in IPRequests : Accept(1, r)
  \/ allowIPHandler_ServeHTTP(1)
  \/ virtualHostHandler_ServeHTTP(1)
  \/ corsHandler_ServeHTTP(1)
  \/ Server_ServeHTTP(1)
  \/ ServeSingleRequest(1)
  \/ codec_Close(1)
  \/ Respond(1)

SpecIP == InitIP /\ [][NextIP]_vars

--------------------------------------------------------------------------
(* The pipeline with the inputs of the virtual-host gate.                  *)

\* names that are no IP literal, and IP literals
HostNames == { <<"localhost">>, <<"LocalHost">>, <<"evil.example">>, <<"Node.Example">> }

IPLiterals4 == { <<"127.0.0.1">>, <<"192.168.1.9">> }

IPLiterals6 == { Loopback6, <<"2001", ":", "db8", ":", ":", "1">> }

Bracket(h) == <<"[">> \o h \o <<"]">>

VHConfigs ==
  [ cors : { <<>>, << <<"http://wallet.example">> >> },
    vhosts : { <<>>, << <<"localhost">> >>, << <<"LocalHost">> >>, << <<"*">> >>,
               << <<"node.example">>, <<"localhost">> >>,
               << <<"localhost">>, <<"*">> >> },
    allowIP : { <<EightSlash8>> },
    behindreverseproxy : { FALSE } ]

VHRequests ==
  [ Method : { "POST", "GET" },
    ContentLength : { 0 },
    RawQuery : { "" },
    ContentType : { JSONType },
    Host : { <<>> } \cup HostNames \cup { h \o <<":">> \o Port : h \in HostNames }
             \cup IPLiterals4 \cup { h \o <<":">> \o Port : h \in IPLiterals4 }
             \cup IPLiterals6 \cup { Bracket(h) : h \in IPLiterals6 }
             \cup { Bracket(h) \o <<":">> \o Port : h \in IPLiterals6 }
             \cup { <<"evil.example", ":", "80", ":", "90">>, <<":">> \o Port },
    RemoteAddr : { JoinHostPort(<<"8.8.8.8">>, Port) },
    XForwardedFor : { <<>> },
    XRealIp : { <<>> },
    ACRM : { FALSE } ]

InitVHost == \E a \in VHConfigs : NewHTTPServer(a, 1)

NextVHost ==
  \/ \E r \in VHRequests : Accept(1, r)
  \/ allowIPHandler_ServeHTTP(1)
  \/ virtualHostHandler_ServeHTTP(1)
  \/ corsHandler_ServeHTTP(1)
  \/ Server_ServeHTTP(1)
  \/ ServeSingleRequest(1)
  \/ codec_Close(1)
  \/ Respond(1)

SpecVHost == InitVHost /\ [][NextVHost]_vars

--------------------------------------------------------------------------
(* SpecPair: several connections served at once by one server behind a     *)
(* reverse proxy; one request for every way a request can end.             *)

\* number of connections served at once
NumConns == 2

PairConfigs ==
  [ cors : { <<>>, << <<"http://wallet.example">> >> },
    vhosts : { <<LocalhostName>> },
    allowIP : { <<EightSlash8>> },
    behindreverseproxy : { TRUE } ]

PlainPost ==
  [ Method |-> "POST", ContentLength |-> 1, RawQuery |-> "", ContentType |-> JSONType,
    Host |-> LocalhostName \o <<":">> \o Port,
    RemoteAddr |-> JoinHostPort(<<"8.8.8.8">>, Port),
    XForwardedFor |-> <<>>, XRealIp |-> <<>>, ACRM |-> FALSE ]

PairRequests ==
  { PlainPost,
    [PlainPost EXCEPT !.XForwardedFor = <<"9.9.9.9">>],
    [PlainPost EXCEPT !.Host = <<"evil.example">>],
    [PlainPost EXCEPT !.Method = "PUT"],
    [PlainPost EXCEPT !.ContentLength = maxHTTPRequestContentLength + 1],
    [PlainPost EXCEPT !.ContentType = <<"text", "/", "plain">>],
    [PlainPost EXCEPT !.Method = "GET", !.ContentLength = 0, !.ContentType = <<>>],
    [PlainPost EXCEPT !.Method = "OPTIONS", !.ContentLength = 0, !.ContentType = <<>>,
                      !.ACRM = TRUE] }

InitPair == \E a \in PairConfigs : NewHTTPServer(a, NumConns)

NextPair ==
  \/ \E i \in 1..NumConns : \E r \in PairRequests : Accept(i, r)
  \/ \E i \in 1..NumConns : allowIPHandler_ServeHTTP(i)
  \/ \E i \in 1..NumConns : virtualHostHandler_ServeHTTP(i)
  \/ \E i \in 1..NumConns : corsHandler_ServeHTTP(i)
  \/ \E i \in 1..NumConns : Server_ServeHTTP(i)
  \/ \E i \in 1..NumConns : ServeSingleRequest(i)
  \/ \E i \in 1..NumConns : codec_Close(i)
  \/ \E i \in 1..NumConns : Respond(i)

SpecPair == InitPair /\ [][NextPair]_vars

--------------------------------------------------------------------------
(* Properties.                                                             *)

Count(s, x) == Cardinality({ k \in 1..Len(s) : s[k] = x })

IsPrefix(s, t) == Len(s) <= Len(t) /\ SubSeq(t, 1, Len(s)) = s

\* the handlers in the order NewHTTPServer composes them, then the dispatcher
Chain ==
  IF Len(args.cors) # 0
  THEN <<"allowIPHandler", "virtualHostHandler", "cors", "Server", "dispatcher">>
  ELSE <<"allowIPHandler", "virtualHostHandler", "Server", "dispatcher">>

\* has the IP gate handled the request of connection i
PastIPGate(i) == conns[i].pc \notin {"idle", "allowip"}

\* does the address match a pattern of the configured masks
Matches(ip, masks) == \E k \in 1..Len(masks) : InNet(ip, ParseCIDR(masks[k]))

C1_OrderInv ==
  \A i \in DOMAIN conns :
    LET c == conns[i]
    IN  /\ IsPrefix(c.trace, Chain)
        /\ c.wrote <= 1
        /\ c.wrote = 1 => c.pc = "done" /\ c.dispatched = 0
        /\ c.dispatched > 0 =>
             /\ c.valid
             /\ ~validateRequest(c.req).err
             /\ Count(c.trace, "allowIPHandler") = 1
             /\ Count(c.trace, "virtualHostHandler") = 1
             /\ Count(c.trace, "Server") = 1
             /\ Count(c.trace, "cors") = (IF Len(args.cors) # 0 THEN 1 ELSE 0)

C1_RejectedStops ==
  \A i \in DOMAIN conns :
    conns[i].wrote > 0 => conns'[i].trace = conns[i].trace \/ conns'[i] = IdleConn

(* C1: every request passes the handlers in the fixed order IP gate,       *)
(* virtual-host gate, CORS handler (if any), server; the dispatcher runs   *)
(* only after both gates delegated and validateRequest returned no error;  *)
(* once a handler has rejected a request no further handler is entered.    *)
C1_FixedOrder == [](C1_OrderInv) /\ [][C1_RejectedStops]_vars

C1_Witness ==
  \E i \in DOMAIN conns :
    /\ conns[i].dispatched = 1
    /\ conns[i].trace = <<"allowIPHandler", "virtualHostHandler", "cors", "Server", "dispatcher">>

(* C2: the IP gate delegates to the next handler exactly once if the       *)
(* identity getIP resolves matches a pattern of the allow-list, otherwise  *)
(* it answers 403 and the next handler is never entered; an unresolved     *)
(* identity never matches.                                                 *)
C2_IPGate ==
  \A i \in DOMAIN conns :
    LET c     == conns[i]
        ident == getIP(c.req, args.behindreverseproxy)
    IN  PastIPGate(i) =>
          /\ Count(c.trace, "allowIPHandler") = 1
          /\ IF Matches(ident, args.allowIP)
             THEN /\ Count(c.trace, "virtualHostHandler") = (IF c.pc = "vhost" THEN 0 ELSE 1)
                  /\ ~(c.trace = <<"allowIPHandler">> /\ c.status = StatusForbidden)
             ELSE /\ c.status = StatusForbidden
                  /\ c.trace = <<"allowIPHandler">>
                  /\ c.pc = "done"
                  /\ c.dispatched = 0
          /\ ident = NoIP => c.status = StatusForbidden /\ c.trace = <<"allowIPHandler">>

C2_Witness ==
  \E i \in DOMAIN conns :
    /\ PastIPGate(i)
    /\ args.allowIP # <<>>
    /\ getIP(conns[i].req, args.behindreverseproxy) = NoIP
    /\ conns[i].status = StatusForbidden

(* C3: a server built with an empty list of IP patterns denies every       *)
(* request with 403: no request enters the virtual-host gate, the CORS     *)
(* handler, the server or the dispatcher.                                  *)
C3_EmptyListDeniesAll ==
  args.allowIP = <<>> =>
    \A i \in DOMAIN conns :
      LET c == conns[i]
      IN  /\ c.pc \in {"idle", "allowip", "done"}
          /\ c.dispatched = 0
          /\ c.pc = "done" => c.status = StatusForbidden /\ c.trace = <<"allowIPHandler">>

C3_Witness ==
  \E i \in DOMAIN conns :
    /\ args.allowIP = <<>>
    /\ conns[i].pc = "done"
    /\ conns[i].req.Method = "GET"
    /\ conns[i].req.ContentLength = 0
    /\ conns[i].status = StatusForbidden

(* C4: with reverse-proxy trust disabled the identity is the same whatever *)
(* the X-Forwarded-For and X-Real-Ip headers hold, it is the address of    *)
(* the host part of RemoteAddr, and so is the gate's decision.             *)
C4_HeadersIgnored ==
  ~args.behindreverseproxy =>
    \A i \in DOMAIN conns :
      LET c == conns[i]
      IN  PastIPGate(i) =>
            /\ \A x \in ForwardedChains, y \in RealIps :
                 LET r2 == [c.req EXCEPT !.XForwardedFor = x, !.XRealIp = y]
                 IN  /\ getIP(r2, FALSE) = c.ip
                     /\ (c.trace = <<"allowIPHandler">> /\ c.status = StatusForbidden)
                          <=> ~Matches(getIP(r2, FALSE), args.allowIP)
            /\ \A h \in PeerHosts :
                 c.req.RemoteAddr = JoinHostPort(h, Port) => c.ip = ParseIP(h)

C4_Witness ==
  \E i \in DOMAIN conns :
    /\ ~args.behindreverseproxy
    /\ PastIPGate(i)
    /\ conns[i].req.XForwardedFor = PublicChain
    /\ conns[i].req.XRealIp = <<"9.9.9.9">>
    /\ conns[i].req.RemoteAddr = JoinHostPort(<<"10.0.0.5">>, Port)
    /\ conns[i].ip = IP4(10, 0, 0, 5)
    /\ conns[i].pc = "vhost"

\* an address getIP takes from a header
Qualifies(ip) == ip # NoIP /\ IsGlobalUnicast(ip) /\ ~IsLAN(ip) /\ ~IsSpecialNetwork(ip)

\* a request handled by the IP gate of a server behind a reverse proxy
Trusted(i) == args.behindreverseproxy /\ PastIPGate(i)

\* the identity is the right-most qualifying entry of the chain, if any
C5_RightMost(i) ==
  \A ch \in Chains, sep \in Separators :
    conns[i].req.XForwardedFor = Join(ch, sep) =>
      LET Q == { k \in 1..Len(ch) : Qualifies(ParseIP(ch[k])) }
      IN  Q # {} => \E k \in Q : /\ \A j \in Q : j <= k
                                 /\ conns[i].ip = ParseIP(ch[k])

PastVHostGate(i) == Count(conns[i].trace, "virtualHostHandler") = 1

\* the virtual-host gate answered 403 and entered no further handler
DeniedByVHost(i) ==
  /\ conns[i].status = StatusForbidden
  /\ conns[i].trace = <<"allowIPHandler", "virtualHostHandler">>
  /\ conns[i].pc = "done"
  /\ conns[i].dispatched = 0

\* is the name in the configured whitelist, letter case aside
Whitelisted(h) == \E k \in 1..Len(args.vhosts) : ToLower(args.vhosts[k]) = ToLower(h)

Wildcard == \E k \in 1..Len(args.vhosts) : args.vhosts[k] = <<"*">>

(* C6: a Host that is a name (no IP literal), with or without a port, that *)
(* is not in the whitelist (letter case aside) of a server whose whitelist *)
(* has no "*" is answered 403 by the virtual-host gate and no further      *)
(* handler is entered; so it is with an empty whitelist.                   *)
C6_UnlistedNameForbidden ==
  \A i \in DOMAIN conns :
    PastVHostGate(i) =>
      \A h \in HostNames :
        /\ conns[i].req.Host \in { h, h \o <<":">> \o Port }
        /\ ~Whitelisted(h)
        /\ ~Wildcard
        => DeniedByVHost(i)

C6_Witness ==
  \E i \in DOMAIN conns :
    /\ args.vhosts = <<>>
    /\ conns[i].req.Host = <<"evil.example", ":">> \o Port
    /\ DeniedByVHost(i)

\* the textual forms of the IP literals a Host header may hold
LiteralForms ==
  IPLiterals4 \cup { h \o <<":">> \o Port : h \in IPLiterals4 }
    \cup IPLiterals6 \cup { Bracket(h) : h \in IPLiterals6 }
    \cup { Bracket(h) \o <<":">> \o Port : h \in IPLiterals6 }

(* C7: a request whose Host is an IPv4 or IPv6 literal, with or without a  *)
(* port, a bracketed IPv6 literal without port included, is delegated by   *)
(* the virtual-host gate whatever the whitelist holds.                     *)
C7_LiteralIPDelegates ==
  \A i \in DOMAIN conns :
    PastVHostGate(i) /\ conns[i].req.Host \in LiteralForms => ~DeniedByVHost(i)

(* C8: the virtual-host gate compares names without regard to letter case: *)
(* a Host that differs from a whitelist entry only in letter case is       *)
(* delegated.                                                              *)
C8_CaseInsensitive ==
  \A i \in DOMAIN conns :
    PastVHostGate(i) =>
      \A h \in HostNames :
        conns[i].req.Host \in { h, h \o <<":">> \o Port } /\ Whitelisted(h)
          => ~DeniedByVHost(i)

\* has the server's ServeHTTP handled the request of connection i
PastServer(i) == Count(conns[i].trace, "Server") = 1

Liveness(r) == r.Method = "GET" /\ r.ContentLength = 0 /\ r.RawQuery = ""

(* C9: a request that declares a ContentLength above 131072 is never       *)
(* dispatched and no byte of its body is read; if its method is neither    *)
(* PUT nor DELETE the server answers it 413 with the declared and the      *)
(* maximum size in the message; a declared length of exactly 131072 is not *)
(* answered 413.                                                           *)
C9_TooLarge ==
  \A i \in DOMAIN conns :
    LET c == conns[i]
        r == c.req
    IN  /\ r.ContentLength > 131072 =>
             c.dispatched = 0 /\ c.bytesRead = 0 /\ c.codec = "none"
        /\ PastServer(i) /\ r.Method \notin {"PUT", "DELETE"} =>
             /\ r.ContentLength > 131072 =>
                  /\ c.status = StatusRequestEntityTooLarge
                  /\ c.body.nums = <<r.ContentLength, 131072>>
                  /\ c.pc = "done"
             /\ r.ContentLength = 131072 => c.status # StatusRequestEntityTooLarge

C9_Witness ==
  \E i \in DOMAIN conns :
    /\ conns[i].req.Method = "POST"
    /\ conns[i].req.ContentLength = 131073
    /\ conns[i].req.ContentType = JSONType
    /\ conns[i].status = StatusRequestEntityTooLarge

\* the content types of ContentTypes that parse to application/json
JSONTypes ==
  { JSONType, <<"Application", "/", "JSON">>, JSONType \o <<";", " ", "charset=utf-8">> }

(* C10: a request that reaches validateRequest's content-type check with a *)
(* method other than OPTIONS is answered 415 and not dispatched unless its *)
(* Content-Type parses to application/json: a missing header, a header     *)
(* that does not parse and text/plain are refused.  OPTIONS requests are   *)
(* not checked.                                                            *)
C10_ContentType ==
  \A i \in DOMAIN conns :
    LET c == conns[i]
        r == c.req
    IN  PastServer(i) /\ ~Liveness(r) /\ r.Method \notin {"PUT", "DELETE"}
          /\ r.ContentLength <= 131072 =>
          IF r.Method = "OPTIONS" \/ r.ContentType \in JSONTypes
          THEN c.valid /\ c.status # StatusUnsupportedMediaType
          ELSE /\ c.status = StatusUnsupportedMediaType
               /\ c.pc = "done"
               /\ c.dispatched = 0
               /\ c.codec = "none"

C10_Witness ==
  \E i \in DOMAIN conns :
    /\ conns[i].req.Method = "POST"
    /\ conns[i].req.ContentType = <<"text", "/", "plain">>
    /\ conns[i].status = StatusUnsupportedMediaType


(* C11: a GET request with ContentLength 0 and an empty query that the     *)
(* server's ServeHTTP has handled is answered 200 at once, whatever its    *)
(* Content-Type and other headers: validateRequest has not passed it, no   *)
(* response was written by the pipeline, the body is empty, no response    *)
(* content type is set, no codec was created and the dispatcher is never   *)
(* invoked.                                                                *)
C11_LivenessBypass ==
  \A i \in DOMAIN conns :
    LET c == conns[i]
    IN  /\ Liveness(c.req) => c.dispatched = 0 /\ c.codec = "none" /\ ~c.valid
        /\ PastServer(i) /\ Liveness(c.req) =>
             /\ c.status = StatusOK
             /\ c.pc = "done"
             /\ c.wrote = 0
             /\ c.body = NoBody /\ ~c.newline
             /\ c.ctype = ""
             /\ Count(c.trace, "dispatcher") = 0

C11_Witness ==
  \E i \in DOMAIN conns :
    /\ Liveness(conns[i].req)
    /\ conns[i].req.ContentType = <<"text", "/", "plain">>
    /\ PastServer(i)
    /\ conns[i].status = StatusOK


(* C12: the endpoint takes GET only as a liveness probe (or a preflight)   *)
(* and POST as the RPC method: a GET request is never handed to the        *)
(* dispatcher, and a PUT or DELETE request is never handed to it either    *)
(* and is answered 405 by the server.                                      *)
C12_MethodsAccepted ==
  \A i \in DOMAIN conns :
    LET c == conns[i]
        r == c.req
    IN  /\ r.Method \in {"GET", "PUT", "DELETE"} =>
             c.dispatched = 0 /\ c.pc \notin {"dispatch", "close"}
        /\ PastServer(i) /\ r.Method \in {"PUT", "DELETE"} =>
             c.status = StatusMethodNotAllowed /\ c.pc = "done"

\* the part of C12 about PUT and DELETE alone
C12_PutDeleteRefused ==
  \A i \in DOMAIN conns :
    LET c == conns[i]
        r == c.req
    IN  r.Method \in {"PUT", "DELETE"} =>
          /\ c.dispatched = 0 /\ c.pc \notin {"dispatch", "close"}
          /\ PastServer(i) => c.status = StatusMethodNotAllowed /\ c.pc = "done"


\* has the pipeline itself answered the request of connection i with an error
Rejected(i) ==
  /\ conns[i].wrote > 0
  /\ conns[i].status \in { StatusForbidden, StatusMethodNotAllowed,
                           StatusRequestEntityTooLarge, StatusUnsupportedMediaType }

(* C13: every response the pipeline produces itself (403 of the IP gate,   *)
(* 403 of the virtual-host gate, 405, 413, 415) is plain text with a       *)
(* non-empty message that tells the reason; the 413 message carries the    *)
(* declared and the maximum size.                                          *)
C13_ReasonInBody ==
  \A i \in DOMAIN conns :
    LET c == conns[i]
    IN  Rejected(i) =>
          /\ c.ctype = "text/plain; charset=utf-8"
          /\ c.body.text # ""
          /\ c.status = StatusRequestEntityTooLarge =>
               c.body.nums = <<c.req.ContentLength, maxHTTPRequestContentLength>>

\* C13 for every rejection but the IP gate's
C13_ReasonInBodyPastIPGate ==
  \A i \in DOMAIN conns :
    LET c == conns[i]
    IN  Rejected(i) /\ c.trace # <<"allowIPHandler">> =>
          /\ c.ctype = "text/plain; charset=utf-8"
          /\ c.body.text # ""
          /\ c.status = StatusRequestEntityTooLarge =>
               c.body.nums = <<c.req.ContentLength, maxHTTPRequestContentLength>>


\* the handler connection i entered last
LastEntered(i) == conns[i].trace[Len(conns[i].trace)]

\* the ways the request of connection i can have ended
EndsRejected(i) == Rejected(i) /\ conns[i].wrote = 1 /\ conns[i].dispatched = 0

EndsLiveness(i) ==
  /\ PastServer(i) /\ Liveness(conns[i].req)
  /\ conns[i].status = StatusOK /\ conns[i].wrote = 0 /\ conns[i].dispatched = 0

EndsDispatched(i) == conns[i].dispatched = 1 /\ conns[i].wrote = 0

EndsPreflight(i) ==
  /\ corsOn /\ conns[i].req.Method = "OPTIONS" /\ LastEntered(i) = "cors"
  /\ conns[i].status = preflightStatus
  /\ conns[i].wrote = 0 /\ conns[i].dispatched = 0

HowMany(bools) == Cardinality({ k \in 1..Len(bools) : bools[k] })

\* a rejection is terminal: one error response, written by the handler
\* entered last, nothing created or invoked for the request
C14_Terminal(i) ==
  LET c == conns[i]
  IN  /\ c.wrote <= 1 /\ c.dispatched <= 1
      /\ c.wrote > 0 =>
           /\ Rejected(i)
           /\ c.pc = "done"
           /\ LastEntered(i) \in {"allowIPHandler", "virtualHostHandler", "Server"}
           /\ Count(c.trace, LastEntered(i)) = 1
           /\ c.dispatched = 0 /\ c.codec = "none" /\ c.bytesRead = 0 /\ ~c.valid

Outcome(i) ==
  [ status |-> conns[i].status, by |-> LastEntered(i), body |-> conns[i].body,
    ctype |-> conns[i].ctype, wrote |-> conns[i].wrote,
    dispatched |-> conns[i].dispatched ]

C15_SameOutcome ==
  \A i, j \in DOMAIN conns :
    conns[i].pc = "done" /\ conns[j].pc = "done" /\ conns[i].req = conns[j].req
      => Outcome(i) = Outcome(j)

C15_ConfigFixed ==
  UNCHANGED <<args, allowedIPs, reverseproxy, vhosts, corsOn, preflightStatus>>

(* C15: no step of the handling of a request, granted or rejected, changes *)
(* the configuration built by NewHTTPServer (allow-list, virtual-host set, *)
(* CORS wrapping, reverse-proxy flag), and two identical requests handled  *)
(* by the same server end alike (same status, same deciding handler, same  *)
(* message, dispatched or not), whatever requests were handled between.    *)
C15_Idempotent == [](C15_SameOutcome) /\ [][C15_ConfigFixed]_vars

C15_Witness ==
  \E i, j \in DOMAIN conns :
    /\ i # j
    /\ conns[i].req = conns[j].req
    /\ conns[i].pc = "done" /\ conns[j].pc = "done"
    /\ conns[i].status = StatusForbidden /\ conns[j].status = StatusForbidden
    /\ conns[i].trace = <<"allowIPHandler", "virtualHostHandler">>


\* does the virtual-host gate admit request r
HostAdmitted(r) ==
  LET hp   == SplitHostPort(r.Host)
      host == IF hp.err THEN r.Host ELSE hp.host
  IN  r.Host = <<>> \/ ParseIP(host) # NoIP \/ <<"*">> \in vhosts \/ host \in vhosts

\* how request r ends when the server handles it alone: the handlers one
\* after the other, nothing else in flight
HandledAlone(r) ==
  IF ~Contains(allowedIPs, getIP(r, reverseproxy))
  THEN [status |-> StatusForbidden, by |-> "allowIPHandler", dispatched |-> 0]
  ELSE IF ~HostAdmitted(r)
  THEN [status |-> StatusForbidden, by |-> "virtualHostHandler", dispatched |-> 0]
  ELSE IF corsOn /\ r.Method = "OPTIONS" /\ r.ACRM
  THEN [status |-> preflightStatus, by |-> "cors", dispatched |-> 0]
  ELSE IF Liveness(r)
  THEN [status |-> StatusOK, by |-> "Server", dispatched |-> 0]
  ELSE IF validateRequest(r).err
  THEN [status |-> validateRequest(r).code, by |-> "Server", dispatched |-> 0]
  ELSE [status |-> StatusOK, by |-> "dispatcher", dispatched |-> 1]

C16_AsIfAlone ==
  \A i \in DOMAIN conns :
    conns[i].pc = "done" =>
      HandledAlone(conns[i].req) =
        [ status |-> conns[i].status, by |-> LastEntered(i),
          dispatched |-> conns[i].dispatched ]

C16_OthersUntouched ==
  \A i \in DOMAIN conns :
    conns'[i] # conns[i] =>
      /\ \A j \in DOMAIN conns \ {i} : conns'[j] = conns[j]
      /\ UNCHANGED <<args, allowedIPs, reverseproxy, vhosts, corsOn, preflightStatus>>

(* C16: with several requests in flight at once, under every interleaving  *)
(* of the handlers' steps, each request ends as it would if it were        *)
(* handled alone (same status, same deciding handler, dispatched or not),  *)
(* and a step taken for one request changes neither another request's     *)
(* state nor the configuration.                                            *)
C16_Independent == [](C16_AsIfAlone) /\ [][C16_OthersUntouched]_vars

C16_Witness ==
  \E i, j \in DOMAIN conns :
    /\ conns[i].pc = "dispatch" /\ conns[i].req.Method = "POST"
    /\ conns[j].pc = "done" /\ conns[j].req.Method = "PUT"
    /\ conns[j].status = StatusMethodNotAllowed


(* C17: validateRequest checks the method, then the declared size, then    *)
(* the content type, and reports the first failure only: a PUT or DELETE   *)
(* the server validates is answered 405 also when it is oversized or has a *)
(* wrong or missing content type; an oversized request with another method *)
(* is answered 413 also when its content type is wrong or missing; 415 is  *)
(* answered only to a request that passed both earlier checks; one         *)
(* response is written and the three statuses differ.                      *)
C17_FirstFailureOnly ==
  /\ Cardinality({ StatusMethodNotAllowed, StatusRequestEntityTooLarge,
                   StatusUnsupportedMediaType }) = 3
  /\ \A i \in DOMAIN conns :
       LET c == conns[i]
           r == c.req
       IN  PastServer(i) /\ ~Liveness(r) =>
             /\ r.Method \in {"PUT", "DELETE"} =>
                  c.status = StatusMethodNotAllowed /\ c.body.text = "method not allowed"
             /\ r.Method \notin {"PUT", "DELETE"}
                  /\ r.ContentLength > maxHTTPRequestContentLength =>
                  c.status = StatusRequestEntityTooLarge
             /\ c.status = StatusUnsupportedMediaType =>
                  /\ r.Method \notin {"PUT", "DELETE"}
                  /\ r.ContentLength <= maxHTTPRequestContentLength
             /\ validateRequest(r).err => c.wrote = 1 /\ c.pc = "done"

C17_Witness ==
  \E i \in DOMAIN conns :
    /\ conns[i].req.Method = "PUT"
    /\ conns[i].req.ContentLength > maxHTTPRequestContentLength
    /\ conns[i].req.ContentType = <<"text", "/", "plain">>
    /\ conns[i].status = StatusMethodNotAllowed


\* the addresses among the comma-separated entries of a header that getIP takes
QualifyingEntries(value) ==
  LET a == Split(value, ",")
  IN  { ip \in { ParseIP(TrimSpace(a[k])) : k \in 1..Len(a) } : Qualifies(ip) }

(* C18: with reverse-proxy trust enabled the identity comes from            *)
(* X-Forwarded-For whenever one of its entries qualifies, from X-Real-Ip    *)
(* only when no entry of X-Forwarded-For qualifies, and when neither header *)
(* has a qualifying entry it is the address getIP returns for the same     *)
(* request with trust disabled.                                            *)
C18_HeaderPriority ==
  \A i \in DOMAIN conns :
    Trusted(i) =>
      LET r == conns[i].req
          F == QualifyingEntries(r.XForwardedFor)
          R == QualifyingEntries(r.XRealIp)
      IN  /\ F # {} => conns[i].ip \in F
          /\ F = {} /\ R # {} => conns[i].ip \in R
          /\ F = {} /\ R = {} => conns[i].ip = getIP(r, FALSE)

C18_Witness ==
  \E i \in DOMAIN conns :
    /\ Trusted(i)
    /\ conns[i].req.XForwardedFor = ExampleChain
    /\ conns[i].req.XRealIp = <<"9.9.9.9">>
    /\ conns[i].ip = IP4(9, 9, 9, 9)


\* the virtual-host gate handed the request of connection i to its next handler
DelegatedByVHost(i) ==
  /\ PastVHostGate(i)
  /\ conns[i].wrote = 0
  /\ conns[i].status # StatusForbidden
  /\ IF Len(conns[i].trace) = 2
     THEN conns[i].pc = NextOfVHost
     ELSE conns[i].trace[3] = (IF Len(args.cors) # 0 THEN "cors" ELSE "Server")

(* C19: the virtual-host gate hands a request without a Host value to its  *)
(* next handler whatever the whitelist holds, and with "*" in the          *)
(* whitelist it hands every request on, whatever its Host value: with the  *)
(* wildcard configured the gate never answers 403.                         *)
C19_NoHostOrWildcard ==
  \A i \in DOMAIN conns :
    PastVHostGate(i) /\ (conns[i].req.Host = <<>> \/ Wildcard) =>
      DelegatedByVHost(i) /\ ~DeniedByVHost(i)

C19_Witness ==
  \E i \in DOMAIN conns :
    /\ args.vhosts = << <<"localhost">>, <<"*">> >>
    /\ conns[i].req.Host = <<"evil.example">>
    /\ DelegatedByVHost(i)
    /\ conns[i].pc = "done"

\* C19's other case reached: no Host value, a whitelist without wildcard
C19_NoHostReached ==
  \E i \in DOMAIN conns :
    /\ args.vhosts = << <<"localhost">> >>
    /\ conns[i].req.Host = <<>>
    /\ DelegatedByVHost(i)
    /\ conns[i].pc = "done"


C20_PreflightReached ==
  \E i \in DOMAIN conns :
    /\ Len(args.cors) = 1
    /\ conns[i].req.Method = "OPTIONS" /\ conns[i].req.ACRM
    /\ conns[i].trace = <<"allowIPHandler", "virtualHostHandler", "cors">>
    /\ conns[i].pc = "done"


(* C21: the dispatcher gets at most 131072 bytes of the body of a request  *)
(* it is handed, also when the body is longer than the declared length or  *)
(* the length is unknown (-1): it gets the whole body if that is within    *)
(* the cap and exactly the first 131072 bytes otherwise.                   *)
C21_BodyCapped ==
  \A i \in DOMAIN conns :
    LET c == conns[i]
    IN  /\ c.bytesRead <= 131072
        /\ c.dispatched = 0 => c.bytesRead = 0
        /\ c.dispatched > 0 =>
             /\ c.bodyLen <= 131072 => c.bytesRead = c.bodyLen
             /\ c.bodyLen > 131072 => c.bytesRead = 131072

C21_Witness ==
  \E i \in DOMAIN conns :
    /\ conns[i].req.ContentLength = -1
    /\ conns[i].dispatched = 1
    /\ conns[i].bodyLen > 131072
    /\ conns[i].bytesRead = 131072


(* C22: for every request that passes validation the server sets the       *)
(* response content type to application/json before the dispatcher runs,   *)
(* the dispatcher runs exactly once, and when the handler has returned the *)
(* codec created for the request is closed, also when the dispatcher       *)
(* failed; a rejected request and a liveness request get no codec.         *)
C22_CodecClosed ==
  \A i \in DOMAIN conns :
    LET c == conns[i]
    IN  /\ c.pc = "dispatch" =>
             /\ c.valid /\ c.dispatched = 0
             /\ c.ctype = "application/json" /\ c.codec = "open"
        /\ c.dispatched <= 1
        /\ c.dispatched = 1 =>
             c.ctype = "application/json" /\ Count(c.trace, "dispatcher") = 1
        /\ c.pc = "close" => c.codec = "open" /\ c.dispatched = 1
        /\ c.pc = "done" /\ c.valid => c.codec = "closed" /\ c.dispatched = 1
        /\ c.codec # "none" => c.valid /\ c.wrote = 0 /\ ~Liveness(c.req)
        /\ c.wrote > 0 \/ (PastServer(i) /\ Liveness(c.req)) =>
             c.codec = "none" /\ c.dispatched = 0

C22_Witness ==
  \E i \in DOMAIN conns :
    /\ conns[i].pc = "done"
    /\ conns[i].dispatched = 1
    /\ conns[i].failed
    /\ conns[i].ctype = "application/json"
    /\ conns[i].codec = "closed"


\* the Host value of r is a name (with or without port) that is not whitelisted
HostRefused(r) ==
  /\ ~Wildcard
  /\ \E h \in { LocalhostName, <<"evil.example">> } :
       r.Host \in { h, h \o <<":">> \o Port } /\ ~Whitelisted(h)

(* C23: the liveness shortcut is the server's alone: a GET without body    *)
(* and query that comes through the chain of NewHTTPServer is answered 403 *)
(* by the IP gate when its resolved identity matches no allowed network,   *)
(* 403 by the virtual-host gate when its Host names a host that is not     *)
(* whitelisted, and gets the empty 200 only after both gates have handed   *)
(* it on.                                                                  *)
C23_ProbeBehindGates ==
  \A i \in DOMAIN conns :
    LET c == conns[i]
    IN  Liveness(c.req) /\ c.pc = "done" =>
          /\ IsPrefix(<<"allowIPHandler">>, c.trace)
          /\ IF ~Matches(c.ip, args.allowIP)
             THEN c.status = StatusForbidden /\ c.trace = <<"allowIPHandler">>
             ELSE IF HostRefused(c.req)
             THEN DeniedByVHost(i)
             ELSE /\ c.status = StatusOK /\ c.wrote = 0 /\ c.body = NoBody
                  /\ IsPrefix(<<"allowIPHandler", "virtualHostHandler">>, c.trace)
                  /\ LastEntered(i) = "Server"
          /\ c.status = StatusOK => PastVHostGate(i) /\ PastServer(i)

C23_Witness ==
  \E i \in DOMAIN conns :
    /\ Liveness(conns[i].req)
    /\ conns[i].pc = "done"
    /\ conns[i].req.Host = <<"evil.example">>
    /\ DeniedByVHost(i)

\* C23's other cases reached: the probe refused by the IP gate, and answered 200
C23_ProbeRefusedByIPGate ==
  \E i \in DOMAIN conns :
    /\ Liveness(conns[i].req) /\ conns[i].pc = "done"
    /\ conns[i].trace = <<"allowIPHandler">> /\ conns[i].status = StatusForbidden

C23_ProbeAnswered ==
  \E i \in DOMAIN conns :
    /\ Liveness(conns[i].req) /\ conns[i].pc = "done"
    /\ conns[i].status = StatusOK /\ LastEntered(i) = "Server"

==========================================================================





